---- MODULE Spec2Model ----
(***************************************************************************)
(* Staged ingestion pipeline and annotation merge engine of the Clinvar,   *)
(* Gnomad and GnomadConstraint factories.                                  *)
(*                                                                         *)
(* The relational store (Region, Variant, VariantAnnotation, Gene tables), *)
(* the task scheduler and the VCF/TSV readers are collaborators of the     *)
(* factories.  A table is a sequence of rows in insertion order (the row's *)
(* primary key is its index).  Whether the store declares a uniqueness     *)
(* constraint on a table's natural key is not decided by the factories'    *)
(* code, so it is a parameter of the environment chosen in Init            *)
(* (uniqueKeys): with it a conflicting INSERT raises IntegrityError,       *)
(* without it the INSERT adds a second row.                                *)
(***************************************************************************)
EXTENDS Integers, Sequences, FiniteSets, TLC

\* ------------------------------------------------------------------ bounds
MaxCalls   == 3      \* stage deliveries the scheduler makes on its own
MaxRetries == 1      \* times the scheduler re-runs a work unit that raised
MaxRecords == 1      \* records per contig of a VCF file in SpecPipeline
MaxLoads   == 2      \* region loads the scheduler delivers in SpecVariants
MaxStream  == 2      \* records per contig of a VCF file in SpecVariants
MaxRelease == 1      \* times a VCF file is replaced by a new release
MaxOps     == 3      \* init_metadata / merge_metadata calls in SpecMerge, SpecGenes
MaxRows    == 2      \* Annotation Rows in the store of SpecMerge
MaxGenes   == 2      \* Gene rows in the store of SpecGenes
MaxBatch   == 2      \* largest batch_size a load_genes call is given directly
MaxValid   == 3      \* rows of a TSV file of SpecBatches
MaxTsv     == 2      \* rows of the gene-constraint TSV file

\* ------------------------------------------------------------- environment
Factories  == {"clinvar", "gnomad"}     \* pk of the two positional sources
Assemblies == {"GRCh37", "GRCh38"}
Contigs    == {"1", "2"}
Workers    == {"w1", "w2"}
Payloads   == {"p1", "p2"}              \* INFO columns that validate
Nodes      == {"n1", "n2", "n3"}        \* NodeVariantAnnotation objects
GeneSource == "constraint"              \* pk of the GnomadConstraintFactory
OtherGenes == "other"                   \* pk of another source of Gene rows
BadInfos   == "bad"                     \* INFO columns that fail validation
Sources    == Factories \cup {GeneSource}

\* The contig lists a VCF header can hold (reader.get_contigs): no repeats.
ContigLists ==
    {<<>>} \cup {<<c>> : c \in Contigs}
           \cup {<<c, d>> : <<c, d>> \in {p \in Contigs \X Contigs : p[1] # p[2]}}

\* A record of reader.get_variants: the fields load_variants_for_region reads.
VcfRecord(pos, ref, alt, infos) ==
    [pos |-> pos, ref |-> ref, alt |-> alt, infos |-> infos]

\* Sequences over S of length at most n.
RECURSIVE SeqUpTo(_, _)
SeqUpTo(S, n) ==
    IF n = 0 THEN {<<>>}
    ELSE SeqUpTo(S, n - 1) \cup
         {Append(q, x) : q \in {r \in SeqUpTo(S, n - 1) : Len(r) = n - 1}, x \in S}

VARIABLES
    uniqueKeys,         \* store: natural keys are declared unique
    assembly,           \* [factory -> assembly]       (ClinvarFactory.assembly)
    contigs,            \* [factory -> contig list of its VCF file]
    records,            \* [factory -> [contig -> records of its VCF file]]
    release,            \* [factory -> number of the release its file holds]
    Region,             \* table of [assembly, seqid, factory]
    Variant,            \* table of [region, pos, ref, alt]
    VariantAnnotation,  \* table of [factory, variant, metadata]
    loading,            \* [factory -> lifecycle state]
    chain,              \* [factory -> link of load()'s chain that is due]
    queue,              \* messages the scheduler holds for the workers
    call,               \* [worker -> frame of the task it executes]
    outcomes,           \* history: finished calls, in order of completion
    discoverer,         \* history: [assembly x seqid -> first factory to look it up]
    ncalls,             \* history: number of deliveries made
    written,            \* history: the Annotation Rows inserted, in order
    Gene,               \* table of [factory, metadata]
    nodeVariant,        \* [node -> pk of its variant]   (NodeVariantAnnotation.variant)
    metadata,           \* [node -> document of the node object]
    shares,             \* [node -> nodes whose metadata is the same dict object]
    building,           \* [node -> build state of the node object]
    saved,              \* [node -> the node's row as last saved]
    nops,               \* history: number of metadata calls made
    tsv,                \* rows of the gene-constraint TSV file
    batch_size,         \* kwargs["batch_size"] of the load_genes calls
    dispatched,         \* history: [factory -> regions its load_variants sent]
    schema              \* history: [source -> key its get_schema() returned]

envVars   == <<uniqueKeys, assembly, contigs, records, release>>
storeVars == <<Region, Variant, VariantAnnotation>>
schedVars == <<loading, chain, queue>>
histVars  == <<outcomes, discoverer, ncalls, written>>
extVars   == <<tsv, batch_size, dispatched, schema>>
metaVars  == <<Gene, nodeVariant, metadata, shares, building, saved, nops, extVars>>
vars == <<envVars, storeVars, schedVars, call, histVars, metaVars>>

\* ------------------------------------------------------------ scheduler
\* A message: a task name with its arguments.  link is the position of the
\* task in load()'s chain (0 for a task sent on its own), tries the number of
\* times it has raised so far.
Message(fn, f, region, link) ==
    [fn |-> fn, self |-> f, region |-> region, link |-> link, tries |-> 0]

Idle == [fn |-> "idle", self |-> "none", region |-> "none", link |-> 0,
         tries |-> 0, i |-> 0, pc |-> "idle", r |-> 0, v |-> 0]

ChainTasksNoSuccess ==
    <<"factory_set_loading_started", "load_regions", "load_variants">>

ChainTasksVariantsFirst ==
    <<"factory_set_loading_started", "load_variants", "load_regions",
      "factory_set_loading_success">>

\* load(): chain(set_loading_started, run load_regions, run load_variants,
\* set_loading_success), each an immutable signature (.si)
ChainTasks ==
    <<"factory_set_loading_started", "load_regions", "load_variants",
      "factory_set_loading_success">>

GeneChainTasksSuccessFirst ==
    <<"factory_set_loading_started", "factory_set_loading_success", "load_genes">>

\* GnomadConstraintFactory.load(): chain(set_loading_started,
\* run load_genes(batch_size=100), set_loading_success)
GeneChainTasks ==
    <<"factory_set_loading_started", "load_genes", "factory_set_loading_success">>

ChainOf(f) == IF f = GeneSource THEN GeneChainTasks ELSE ChainTasks

\* batch_size in the kwargs of load()'s chain
LoadBatchSize == 100

\* run(): the stage functions a function_name is resolved against
Stages == {"load_regions", "load_variants", "load_variants_for_region"}

\* GnomadConstraintFactory.run(): for f in [self.load_genes]
GeneStages == {"load_genes"}

AnyStage(f) == Stages \cup GeneStages

StagesOf(f) == IF f = GeneSource THEN GeneStages ELSE Stages

\* --------------------------------------------------------------- store
RegionRow(a, s, f) == [assembly |-> a, seqid |-> s, factory |-> f]

RegionMatchesAnyAssembly(f, seqid) ==
    {k \in DOMAIN Region : Region[k].seqid = seqid}

RegionMatchesOwned(f, seqid) ==
    {k \in DOMAIN Region : /\ Region[k].assembly = assembly[f]
                           /\ Region[k].seqid = seqid
                           /\ Region[k].factory = f}

\* Region.objects filter(assembly=self.assembly, seqid=region): the matching pks
RegionMatches(f, seqid) ==
    {k \in DOMAIN Region : /\ Region[k].assembly = assembly[f]
                           /\ Region[k].seqid = seqid}

\* The rows a new Region / Variant row would conflict with under the store's
\* uniqueness constraint on the natural key.
RegionConflicts(a, s) ==
    {k \in DOMAIN Region : Region[k].assembly = a /\ Region[k].seqid = s}

VariantConflicts(r, rec) ==
    {k \in DOMAIN Variant : /\ Variant[k].region = r
                            /\ Variant[k].pos = rec.pos
                            /\ Variant[k].ref = rec.ref
                            /\ Variant[k].alt = rec.alt}

VariantMatchesAltRef(r, rec) ==
    {k \in DOMAIN Variant : /\ Variant[k].region = r
                            /\ Variant[k].pos = rec.pos
                            /\ Variant[k].ref = rec.ref
                            /\ Variant[k].alt = rec.ref}

VariantMatchesAnyRegion(r, rec) ==
    {k \in DOMAIN Variant : /\ Variant[k].pos = rec.pos
                            /\ Variant[k].ref = rec.ref
                            /\ Variant[k].alt = rec.alt}

VariantMatchesSwapped(r, rec) ==
    {k \in DOMAIN Variant : /\ Variant[k].region = r
                            /\ Variant[k].pos = rec.pos
                            /\ Variant[k].ref = rec.alt
                            /\ Variant[k].alt = rec.ref}

\* Variant.objects filter(region=, pos=, ref=, alt=)
VariantMatches(r, rec) ==
    {k \in DOMAIN Variant : /\ Variant[k].region = r
                            /\ Variant[k].pos = rec.pos
                            /\ Variant[k].ref = rec.ref
                            /\ Variant[k].alt = rec.alt}

\* VariantAnnotation.objects filter(factory=self, variant=variant, metadata=...)
AnnotationMatches(f, v, infos) ==
    {k \in DOMAIN VariantAnnotation : /\ VariantAnnotation[k].factory = f
                                      /\ VariantAnnotation[k].variant = v
                                      /\ VariantAnnotation[k].metadata = infos}

\* The rows that would conflict with a new (factory, variant) row under the
\* store's uniqueness constraint.
AnnotationConflicts(f, v) ==
    {k \in DOMAIN VariantAnnotation : /\ VariantAnnotation[k].factory = f
                                      /\ VariantAnnotation[k].variant = v}

\* ------------------------------------------------------- stage functions
\* for region in reader.get_contigs(...): the frame after the i-th iteration
NextContig(fr, first) ==
    IF fr.i + 1 > Len(contigs[fr.self])
    THEN [fr EXCEPT !.pc = "returned"]
    ELSE [fr EXCEPT !.i = fr.i + 1, !.pc = first]

\* for vcf_variant in reader.get_variants(...): the frame after the i-th record
NextRecord(fr) ==
    IF fr.i + 1 > Len(records[fr.self][fr.region])
    THEN [fr EXCEPT !.pc = "returned"]
    ELSE [fr EXCEPT !.i = fr.i + 1, !.pc = "variant_get"]

\* run(function_name, kwargs): the frame on entry of the stage function the name
\* resolves to; a name that matches no stage function calls nothing and returns.
Run(m) ==
    LET fr == [fn |-> m.fn, self |-> m.self, region |-> m.region, link |-> m.link,
               tries |-> m.tries, i |-> 0, pc |-> "returned", r |-> 0, v |-> 0]
    IN  IF m.fn \notin StagesOf(m.self) THEN fr
        ELSE IF m.fn = "load_genes" THEN [fr EXCEPT !.pc = "delete"]
        ELSE IF m.fn = "load_regions" THEN NextContig(fr, "get")
        ELSE IF m.fn = "load_variants" THEN NextContig(fr, "delay")
        ELSE [fr EXCEPT !.pc = "region_get"]

\* A free worker takes a message: factory_run calls run(); the two lifecycle
\* tasks act on the source themselves.
Start(w, m) ==
    /\ call[w] = Idle
    /\ m \in queue
    /\ queue' = queue \ {m}
    /\ call' = [call EXCEPT ![w] =
                  IF m.fn \in {"factory_set_loading_started",
                               "factory_set_loading_success"}
                  THEN [Run(m) EXCEPT !.pc = "mark"]
                  ELSE Run(m)]
    /\ UNCHANGED <<metaVars, envVars, storeVars, loading, chain, histVars>>

\* As Start, for a scheduler that runs one task at a time.
StartSerial(w, m) ==
    /\ \A v \in Workers : call[v] = Idle
    /\ Start(w, m)

\* The scheduler delivers factory_run(pk, function_name="load_regions").
Deliver(f) ==
    /\ ncalls < MaxCalls
    /\ Message("load_regions", f, "none", 0) \notin queue
    /\ queue' = queue \cup {Message("load_regions", f, "none", 0)}
    /\ ncalls' = ncalls + 1
    /\ UNCHANGED <<metaVars, envVars, storeVars, loading, chain, call, outcomes, discoverer,
                   written>>

\* load(): the chain is sent; its first task is due.
Load(f) ==
    /\ \A g \in Factories : chain[g] = 0
    /\ chain' = [chain EXCEPT ![f] = 1]
    /\ queue' = queue \cup {Message(ChainTasks[1], f, "none", 1)}
    /\ UNCHANGED <<metaVars, envVars, storeVars, loading, call, histVars>>

\* factory_set_loading_started / factory_set_loading_success
MarkLoading(w) ==
    LET fr == call[w]
    IN  /\ fr.pc = "mark"
        /\ loading' = [loading EXCEPT ![fr.self] =
                         IF fr.fn = "factory_set_loading_started"
                         THEN "LOADING"
                         ELSE IF loading[fr.self] = "LOADING" THEN "LOADED"
                         ELSE loading[fr.self]]
        /\ call' = [call EXCEPT ![w] = [fr EXCEPT !.pc = "returned"]]
        /\ UNCHANGED <<metaVars, envVars, storeVars, chain, queue, histVars>>

\* try: region_object = Region.objects.get(assembly=self.assembly, seqid=region)
\* get() raises DoesNotExist on no row (caught: go on to create) and
\* MultipleObjectsReturned on several (not caught: the call ends in an error).
LoadRegionsGet(w) ==
    LET fr  == call[w]
        s   == contigs[fr.self][fr.i]
        key == <<assembly[fr.self], s>>
        n   == Cardinality(RegionMatches(fr.self, s))
    IN  /\ fr.fn = "load_regions"
        /\ fr.pc = "get"
        /\ call' = [call EXCEPT ![w] =
                      IF n = 0 THEN [fr EXCEPT !.pc = "save"]
                      ELSE IF n = 1 THEN NextContig(fr, "get")
                      ELSE [fr EXCEPT !.pc = "raised"]]
        /\ discoverer' = IF discoverer[key] = "none"
                         THEN [discoverer EXCEPT ![key] = fr.self]
                         ELSE discoverer
        /\ UNCHANGED <<metaVars, envVars, storeVars, schedVars, outcomes, ncalls, written>>

\* except ObjectDoesNotExist: Region(assembly, seqid, factory=self).save()
LoadRegionsSave(w) ==
    LET fr == call[w]
        s  == contigs[fr.self][fr.i]
    IN  /\ fr.fn = "load_regions"
        /\ fr.pc = "save"
        /\ IF uniqueKeys /\ RegionConflicts(assembly[fr.self], s) # {}
           THEN /\ call' = [call EXCEPT ![w] = [fr EXCEPT !.pc = "raised"]]
                /\ Region' = Region
           ELSE /\ call' = [call EXCEPT ![w] = NextContig(fr, "get")]
                /\ Region' = Append(Region, RegionRow(assembly[fr.self], s, fr.self))
        /\ UNCHANGED <<metaVars, envVars, Variant, VariantAnnotation, schedVars, histVars>>

LoadVariantsFirstOnly(w) ==
    LET fr == call[w]
        s  == contigs[fr.self][fr.i]
    IN  /\ fr.fn = "load_variants"
        /\ fr.pc = "delay"
        /\ queue' = queue \cup {Message("load_variants_for_region", fr.self, s, 0)}
        /\ dispatched' = [dispatched EXCEPT ![fr.self] = Append(dispatched[fr.self], s)]
        /\ call' = [call EXCEPT ![w] = [fr EXCEPT !.pc = "returned"]]
        /\ UNCHANGED <<Gene, nodeVariant, metadata, shares, building, saved, nops, tsv,
                       batch_size, schema, envVars, storeVars, loading, chain, histVars>>

\* load_variants: factory_run.delay(pk, "load_variants_for_region", region) for
\* one contig; delay() sends the message and returns at once.
LoadVariantsDelay(w) ==
    LET fr == call[w]
        s  == contigs[fr.self][fr.i]
    IN  /\ fr.fn = "load_variants"
        /\ fr.pc = "delay"
        /\ queue' = queue \cup {Message("load_variants_for_region", fr.self, s, 0)}
        /\ dispatched' = [dispatched EXCEPT ![fr.self] = Append(dispatched[fr.self], s)]
        /\ call' = [call EXCEPT ![w] = NextContig(fr, "delay")]
        /\ UNCHANGED <<Gene, nodeVariant, metadata, shares, building, saved, nops, tsv,
                       batch_size, schema, envVars, storeVars, loading, chain, histVars>>

\* load_variants_for_region: region_obj = Region.objects.get(assembly, seqid);
\* DoesNotExist and MultipleObjectsReturned are not caught.
RegionGet(w) ==
    LET fr == call[w]
        m  == RegionMatches(fr.self, fr.region)
    IN  /\ fr.fn = "load_variants_for_region"
        /\ fr.pc = "region_get"
        /\ call' = [call EXCEPT ![w] =
                      IF Cardinality(m) = 1
                      THEN NextRecord([fr EXCEPT !.r = CHOOSE k \in m : TRUE])
                      ELSE [fr EXCEPT !.pc = "raised"]]
        /\ UNCHANGED <<metaVars, envVars, storeVars, schedVars, histVars>>

\* ClinvarVariantModel(..., infos=ClinvarInfosModel(**vcf_variant.infos)) raises
\* ValidationError on a record that does not validate; then the lookup of
\* Variant.objects.get_or_create(region, pos, ref, alt).
VariantGet(w) ==
    LET fr  == call[w]
        rec == records[fr.self][fr.region][fr.i]
        m   == VariantMatches(fr.r, rec)
    IN  /\ fr.fn = "load_variants_for_region"
        /\ fr.pc = "variant_get"
        /\ call' = [call EXCEPT ![w] =
                      IF rec.infos = BadInfos THEN [fr EXCEPT !.pc = "raised"]
                      ELSE IF m = {} THEN [fr EXCEPT !.pc = "variant_create"]
                      ELSE IF Cardinality(m) = 1
                      THEN [fr EXCEPT !.v = CHOOSE k \in m : TRUE,
                                      !.pc = "annotation_get"]
                      ELSE [fr EXCEPT !.pc = "raised"]]
        /\ UNCHANGED <<metaVars, envVars, storeVars, schedVars, histVars>>

\* get_or_create after DoesNotExist: create(); on IntegrityError the same
\* lookup is repeated and, finding nothing, the IntegrityError is re-raised.
VariantCreate(w) ==
    LET fr  == call[w]
        rec == records[fr.self][fr.region][fr.i]
        m   == VariantMatches(fr.r, rec)
    IN  /\ fr.fn = "load_variants_for_region"
        /\ fr.pc = "variant_create"
        /\ IF uniqueKeys /\ VariantConflicts(fr.r, rec) # {}
           THEN /\ Variant' = Variant
                /\ call' = [call EXCEPT ![w] =
                              IF Cardinality(m) = 1
                              THEN [fr EXCEPT !.v = CHOOSE k \in m : TRUE,
                                              !.pc = "annotation_get"]
                              ELSE [fr EXCEPT !.pc = "raised"]]
           ELSE /\ Variant' = Append(Variant, [region |-> fr.r, pos |-> rec.pos,
                                               ref |-> rec.ref, alt |-> rec.alt])
                /\ call' = [call EXCEPT ![w] =
                              [fr EXCEPT !.v = Len(Variant) + 1,
                                         !.pc = "annotation_get"]]
        /\ UNCHANGED <<metaVars, envVars, Region, VariantAnnotation, schedVars, histVars>>

\* VariantAnnotation.objects.get_or_create(factory=self, variant=variant,
\* metadata=clinvar_variant.infos.dict()): the lookup
AnnotationGet(w) ==
    LET fr  == call[w]
        rec == records[fr.self][fr.region][fr.i]
        m   == AnnotationMatches(fr.self, fr.v, rec.infos)
    IN  /\ fr.fn = "load_variants_for_region"
        /\ fr.pc = "annotation_get"
        /\ call' = [call EXCEPT ![w] =
                      IF m = {} THEN [fr EXCEPT !.pc = "annotation_create"]
                      ELSE IF Cardinality(m) = 1 THEN NextRecord(fr)
                      ELSE [fr EXCEPT !.pc = "raised"]]
        /\ UNCHANGED <<metaVars, envVars, storeVars, schedVars, histVars>>

\* get_or_create after DoesNotExist: create(); on IntegrityError the same
\* lookup is repeated and, finding nothing, the IntegrityError is re-raised.
AnnotationCreate(w) ==
    LET fr  == call[w]
        rec == records[fr.self][fr.region][fr.i]
        m   == AnnotationMatches(fr.self, fr.v, rec.infos)
    IN  /\ fr.fn = "load_variants_for_region"
        /\ fr.pc = "annotation_create"
        /\ IF uniqueKeys /\ AnnotationConflicts(fr.self, fr.v) # {}
           THEN /\ VariantAnnotation' = VariantAnnotation
                /\ written' = written
                /\ call' = [call EXCEPT ![w] =
                              IF Cardinality(m) = 1 THEN NextRecord(fr)
                              ELSE [fr EXCEPT !.pc = "raised"]]
           ELSE /\ VariantAnnotation' =
                      Append(VariantAnnotation,
                             [factory |-> fr.self, variant |-> fr.v,
                              metadata |-> rec.infos])
                /\ written' = Append(written, [factory |-> fr.self, variant |-> fr.v,
                                                metadata |-> rec.infos])
                /\ call' = [call EXCEPT ![w] = NextRecord(fr)]
        /\ UNCHANGED <<metaVars, envVars, Region, Variant, schedVars, outcomes, discoverer,
                       ncalls>>

\* The task has returned or raised: the worker is free again.  A task that
\* raised is run again up to MaxRetries times.  When a link of load()'s chain
\* returns, the next link is sent; when it fails for good the chain stops.  A
\* work unit that fails for good moves its source from LOADING to FAILED.
Finish(w) ==
    LET fr     == call[w]
        raised == fr.pc = "raised"
        retry  == raised /\ fr.tries < MaxRetries
        msg    == [fn |-> fr.fn, self |-> fr.self, region |-> fr.region,
                   link |-> fr.link, tries |-> fr.tries + 1]
        next   == Message(ChainOf(fr.self)[fr.link + 1], fr.self, "none", fr.link + 1)
    IN  /\ fr.pc \in {"returned", "raised"}
        /\ outcomes' = Append(outcomes, [fn |-> fr.fn, self |-> fr.self,
                                         region |-> fr.region, raised |-> raised,
                                         final |-> ~retry,
                                         release |-> IF fr.self \in Factories
                                                     THEN release[fr.self]
                                                     ELSE 0])
        /\ call' = [call EXCEPT ![w] = Idle]
        /\ queue' = IF retry THEN queue \cup {msg}
                    ELSE IF ~raised /\ fr.link > 0 /\ fr.link < Len(ChainOf(fr.self))
                    THEN queue \cup {next}
                    ELSE queue
        /\ chain' = IF fr.link = 0 \/ retry THEN chain
                    ELSE IF raised THEN [chain EXCEPT ![fr.self] = -1]
                    ELSE [chain EXCEPT ![fr.self] = fr.link + 1]
        /\ loading' = IF raised /\ ~retry /\ loading[fr.self] = "LOADING"
                      THEN [loading EXCEPT ![fr.self] = "FAILED"]
                      ELSE loading
        /\ UNCHANGED <<metaVars, envVars, storeVars, discoverer, ncalls, written>>

\* ------------------------------------------------------- specifications
InitStore ==
    /\ uniqueKeys \in BOOLEAN
    /\ Region = <<>>
    /\ Variant = <<>>
    /\ VariantAnnotation = <<>>

InitScheduler ==
    /\ loading = [f \in Sources |-> "NOT_STARTED"]
    /\ chain = [f \in Sources |-> 0]
    /\ queue = {}
    /\ call = [w \in Workers |-> Idle]
    /\ outcomes = <<>>
    /\ discoverer = [k \in Assemblies \X Contigs |-> "none"]
    /\ ncalls = 0
    /\ written = <<>>
    /\ release = [f \in Sources |-> 0]

\* get_schema() has not been called.
NoSchema == [id |-> "none", key |-> "none"]

\* No gene file, no dispatch made, no schema asked for.
InitNoGeneLoad ==
    /\ tsv = <<>>
    /\ batch_size = LoadBatchSize
    /\ dispatched = [f \in Factories |-> <<>>]
    /\ schema = [f \in Sources |-> NoSchema]

\* No node is being built.
InitNoNodes ==
    /\ InitNoGeneLoad
    /\ Gene = <<>>
    /\ nodeVariant = [n \in Nodes |-> 0]
    /\ metadata = [n \in Nodes |-> <<>>]
    /\ shares = [n \in Nodes |-> {n}]
    /\ building = [n \in Nodes |-> "PENDING"]
    /\ saved = [n \in Nodes |-> [metadata |-> <<>>, building |-> "PENDING"]]
    /\ nops = 0

NoRecords == [f \in Factories |-> [c \in Contigs |-> <<>>]]

InitRegions ==
    /\ InitStore
    /\ InitScheduler
    /\ InitNoNodes
    /\ assembly \in [Factories -> Assemblies]
    /\ contigs \in [Factories -> ContigLists]
    /\ records = NoRecords

NextRegions ==
    \/ \E f \in Factories : Deliver(f)
    \/ \E w \in Workers : \E m \in queue : Start(w, m)
    \/ \E w \in Workers : LoadRegionsGet(w)
    \/ \E w \in Workers : LoadRegionsSave(w)
    \/ \E w \in Workers : Finish(w)

\* Concurrent deliveries of load_regions (two sources, or one stage twice).
SpecRegions == InitRegions /\ [][NextRegions]_vars

NextRegionsSerial ==
    \/ \E f \in Factories : Deliver(f)
    \/ \E w \in Workers : \E m \in queue : StartSerial(w, m)
    \/ \E w \in Workers : LoadRegionsGet(w)
    \/ \E w \in Workers : LoadRegionsSave(w)
    \/ \E w \in Workers : Finish(w)

\* Complete, non-overlapping invocations of load_regions.
SpecRegionsSerial == InitRegions /\ [][NextRegionsSerial]_vars

\* The records a VCF file of SpecPipeline holds for one contig.
PipelineRecords ==
    SeqUpTo({VcfRecord(150, <<"A">>, <<"T">>, x) : x \in {"p1", BadInfos}},
            MaxRecords)

\* One source runs load(); the file of the other one is empty.  A file has
\* records for the contigs of its header, at most one for a contig after the
\* first.
InitPipeline ==
    /\ InitStore
    /\ InitScheduler
    /\ InitNoNodes
    /\ assembly = [f \in Factories |-> "GRCh38"]
    /\ contigs \in [Factories -> ContigLists]
    /\ records \in [Factories -> [Contigs -> PipelineRecords]]
    /\ \E f \in Factories : contigs[f] = <<>>
    /\ \A f \in Factories : \A c \in Contigs :
          /\ (\A x \in DOMAIN contigs[f] : contigs[f][x] # c) => records[f][c] = <<>>
          /\ (Len(contigs[f]) > 1 /\ contigs[f][1] # c) => Len(records[f][c]) <= 1

NextPipeline ==
    \/ \E f \in Factories : Load(f)
    \/ \E w \in Workers : \E m \in queue : Start(w, m)
    \/ \E w \in Workers : MarkLoading(w)
    \/ \E w \in Workers : LoadRegionsGet(w)
    \/ \E w \in Workers : LoadRegionsSave(w)
    \/ \E w \in Workers : LoadVariantsDelay(w)
    \/ \E w \in Workers : RegionGet(w)
    \/ \E w \in Workers : VariantGet(w)
    \/ \E w \in Workers : VariantCreate(w)
    \/ \E w \in Workers : AnnotationGet(w)
    \/ \E w \in Workers : AnnotationCreate(w)
    \/ \E w \in Workers : Finish(w)

\* The pipeline load() starts, run by the scheduler's workers.
SpecPipeline == InitPipeline /\ [][NextPipeline]_vars

\* The scheduler delivers factory_run(pk, "load_variants_for_region", region).
DeliverRegionLoad(f, c) ==
    /\ ncalls < MaxLoads
    /\ Message("load_variants_for_region", f, c, 0) \notin queue
    /\ queue' = queue \cup {Message("load_variants_for_region", f, c, 0)}
    /\ ncalls' = ncalls + 1
    /\ UNCHANGED <<metaVars, envVars, storeVars, loading, chain, call, outcomes, discoverer,
                   written>>

\* The records a VCF file of SpecVariants holds for one contig: two payloads
\* for one (pos, ref, alt).
VariantRecords ==
    SeqUpTo({VcfRecord(150, <<"A">>, <<"T">>, x) : x \in Payloads}, MaxStream)

\* The records a new release holds for the contig: one for the (pos, ref, alt).
ReleaseRecords == {<<VcfRecord(150, <<"A">>, <<"T">>, x)>> : x \in Payloads}

\* Between two runs the file of a source is replaced by a new release;
\* MaxRelease counts the releases of both sources.
NewRelease(f) ==
    /\ \A w \in Workers : call[w] = Idle
    /\ queue = {}
    /\ release["clinvar"] + release["gnomad"] < MaxRelease
    /\ release' = [release EXCEPT ![f] = release[f] + 1]
    /\ \E q \in ReleaseRecords :
          /\ q # records[f]["1"]
          /\ records' = [records EXCEPT ![f]["1"] = q]
    /\ UNCHANGED <<metaVars, uniqueKeys, assembly, contigs, storeVars, schedVars, call,
                   histVars>>

\* Both sources share the assembly and start from files with the same records
\* for contig "1", the first of them with payload p1 (the payloads are
\* interchangeable); load_regions has run for it.
InitVariants ==
    /\ uniqueKeys \in BOOLEAN
    /\ Region = <<RegionRow("GRCh38", "1", "clinvar")>>
    /\ Variant = <<>>
    /\ VariantAnnotation = <<>>
    /\ InitScheduler
    /\ InitNoNodes
    /\ assembly = [f \in Factories |-> "GRCh38"]
    /\ contigs = [f \in Factories |-> <<"1">>]
    /\ \E q \in VariantRecords :
          /\ q # <<>> => q[1].infos = "p1"
          /\ records = [f \in Factories |->
                          [c \in Contigs |-> IF c = "1" THEN q ELSE <<>>]]

NextVariants ==
    \/ \E f \in Factories : DeliverRegionLoad(f, "1")
    \/ \E f \in Factories : NewRelease(f)
    \/ \E w \in Workers : \E m \in queue : StartSerial(w, m)
    \/ \E w \in Workers : RegionGet(w)
    \/ \E w \in Workers : VariantGet(w)
    \/ \E w \in Workers : VariantCreate(w)
    \/ \E w \in Workers : AnnotationGet(w)
    \/ \E w \in Workers : AnnotationCreate(w)
    \/ \E w \in Workers : Finish(w)

\* Complete, non-overlapping runs of load_variants_for_region.
SpecVariants == InitVariants /\ [][NextVariants]_vars

\* The records a VCF file of SpecUnits holds for a contig: valid ones and ones
\* whose INFO column fails validation, for one (pos, ref, alt).
UnitRecords ==
    SeqUpTo({VcfRecord(150, <<"A">>, <<"T">>, x) : x \in {"p1", BadInfos}}, MaxStream)

\* The scheduler delivers a region load once the one before is done.
DeliverUnit(f, c) ==
    /\ queue = {}
    /\ \A w \in Workers : call[w] = Idle
    /\ DeliverRegionLoad(f, c)

\* The Region table holds a row for contig "1" of GRCh38 and none for contig
\* "2"; gnomad is on either assembly; the files hold the same records for every
\* contig.
InitUnits ==
    /\ uniqueKeys \in BOOLEAN
    /\ Region = <<RegionRow("GRCh38", "1", "clinvar")>>
    /\ Variant = <<>>
    /\ VariantAnnotation = <<>>
    /\ InitScheduler
    /\ InitNoNodes
    /\ \E a \in Assemblies : assembly = [f \in Factories |->
                                           IF f = "clinvar" THEN "GRCh38" ELSE a]
    /\ contigs = [f \in Factories |-> <<"1", "2">>]
    /\ \E q \in UnitRecords : records = [f \in Factories |-> [c \in Contigs |-> q]]

NextUnits ==
    \/ \E f \in Factories : \E c \in Contigs : DeliverUnit(f, c)
    \/ \E w \in Workers : \E m \in queue : StartSerial(w, m)
    \/ \E w \in Workers : RegionGet(w)
    \/ \E w \in Workers : VariantGet(w)
    \/ \E w \in Workers : VariantCreate(w)
    \/ \E w \in Workers : AnnotationGet(w)
    \/ \E w \in Workers : AnnotationCreate(w)
    \/ \E w \in Workers : Finish(w)

\* Region loads delivered on their own, for contigs with and without a Region
\* row, over streams with invalid records; the runs do not overlap.
SpecUnits == InitUnits /\ [][NextUnits]_vars

\* ------------------------------------------------------ gene batch load
\* A row of the TSV file.  kind "ok" builds a gene; "bad_gene" makes
\* GnomadConstraintGeneModel(**model_args) raise ValidationError inside
\* gene_reader's try; "bad_attributes" makes GnomadConstraintAttributesModel(**row)
\* (or a row[...] lookup) raise, which is outside the try.
TsvRow(gene, chromosome, start, end, kind) ==
    [gene |-> gene, chromosome |-> chromosome, start_position |-> start,
     end_position |-> end, kind |-> kind]

\* Gene(factory=self, name=gene.name, ..., metadata=gene.attributes.dict())
GeneOf(f, row) ==
    [factory |-> f, name |-> row.gene,
     metadata |-> [chromosome |-> row.chromosome,
                   start_position |-> row.start_position,
                   end_position |-> row.end_position]]

\* [Gene(factory=self, ...) for gene in genes]
RECURSIVE GenesOf(_, _, _)
GenesOf(f, rows, k) ==
    IF k > Len(rows) THEN <<>>
    ELSE <<GeneOf(f, rows[k])>> \o GenesOf(f, rows, k + 1)

\* list(islice(genes, batch_size)) over get_genes: from row i of the file on,
\* the genes gathered (acc), the rows read, and whether the reader raised.
\* get_genes logs and drops the rows gene_reader yields with an error.
RECURSIVE TakeGenes(_, _, _)
TakeGenes(i, n, acc) ==
    IF Len(acc) = n \/ i >= Len(tsv)
    THEN [genes |-> acc, i |-> i, raised |-> FALSE]
    ELSE IF tsv[i + 1].kind = "bad_attributes"
    THEN [genes |-> acc, i |-> i + 1, raised |-> TRUE]
    ELSE IF tsv[i + 1].kind = "bad_gene"
    THEN TakeGenes(i + 1, n, acc)
    ELSE TakeGenes(i + 1, n, Append(acc, tsv[i + 1]))

\* A batch the store rejects under a uniqueness constraint on a source's gene
\* names: a name twice in the batch, or already in the source's rows.
GeneConflicts(f, rows) ==
    \/ \E a, b \in DOMAIN rows : a # b /\ rows[a].gene = rows[b].gene
    \/ \E a \in DOMAIN rows : \E k \in DOMAIN Gene :
          Gene[k].factory = f /\ "name" \in DOMAIN Gene[k] /\ Gene[k].name = rows[a].gene

OwnedByOther(f, g) == g.factory # f

DeleteNothing(f) == Gene

\* self.genomes_genes.all().delete()
DeleteGenes(f) ==
    LET Keep(g) == OwnedByOther(f, g) IN SelectSeq(Gene, Keep)

\* load_genes: message = self.genomes_genes.all().delete(); genes = get_genes(...)
LoadGenesDelete(w) ==
    LET fr == call[w]
    IN  /\ fr.fn = "load_genes"
        /\ fr.pc = "delete"
        /\ Gene' = DeleteGenes(fr.self)
        /\ call' = [call EXCEPT ![w] = [fr EXCEPT !.i = 0, !.pc = "batch"]]
        /\ UNCHANGED <<nodeVariant, metadata, shares, building, saved, nops, extVars,
                       envVars, storeVars, schedVars, histVars>>

LoadGenesBatchSkip(w) ==
    LET fr == call[w]
        b  == TakeGenes(fr.i, batch_size, <<>>)
    IN  /\ fr.fn = "load_genes"
        /\ fr.pc = "batch"
        /\ IF b.raised \/ (b.genes # <<>> /\ uniqueKeys /\ GeneConflicts(fr.self, b.genes))
           THEN /\ Gene' = Gene
                /\ call' = [call EXCEPT ![w] = [fr EXCEPT !.i = b.i, !.pc = "raised"]]
           ELSE IF b.genes = <<>>
           THEN /\ Gene' = Gene
                /\ call' = [call EXCEPT ![w] = [fr EXCEPT !.i = b.i, !.pc = "returned"]]
           ELSE /\ Gene' = Gene \o GenesOf(fr.self, b.genes, 1)
                /\ call' = [call EXCEPT ![w] =
                              [fr EXCEPT !.i = IF b.i < Len(tsv) THEN b.i + 1 ELSE b.i]]
        /\ UNCHANGED <<nodeVariant, metadata, shares, building, saved, nops, extVars,
                       envVars, storeVars, schedVars, histVars>>

\* load_genes: batch = list(islice(genes, batch_size)); if not batch: break;
\* self.load_genes_by_batch(genes=batch), one bulk_create per batch.
LoadGenesBatch(w) ==
    LET fr == call[w]
        b  == TakeGenes(fr.i, batch_size, <<>>)
    IN  /\ fr.fn = "load_genes"
        /\ fr.pc = "batch"
        /\ IF b.raised \/ (b.genes # <<>> /\ uniqueKeys /\ GeneConflicts(fr.self, b.genes))
           THEN /\ Gene' = Gene
                /\ call' = [call EXCEPT ![w] = [fr EXCEPT !.i = b.i, !.pc = "raised"]]
           ELSE IF b.genes = <<>>
           THEN /\ Gene' = Gene
                /\ call' = [call EXCEPT ![w] = [fr EXCEPT !.i = b.i, !.pc = "returned"]]
           ELSE /\ Gene' = Gene \o GenesOf(fr.self, b.genes, 1)
                /\ call' = [call EXCEPT ![w] = [fr EXCEPT !.i = b.i]]
        /\ UNCHANGED <<nodeVariant, metadata, shares, building, saved, nops, extVars,
                       envVars, storeVars, schedVars, histVars>>

\* The scheduler delivers factory_run(pk, function_name="load_genes",
\* kwargs={"batch_size": batch_size}).
DeliverLoadGenes ==
    /\ ncalls < MaxLoads
    /\ Message("load_genes", GeneSource, "none", 0) \notin queue
    /\ queue' = queue \cup {Message("load_genes", GeneSource, "none", 0)}
    /\ ncalls' = ncalls + 1
    /\ UNCHANGED <<metaVars, envVars, storeVars, loading, chain, call, outcomes, discoverer,
                   written>>

\* The rows a TSV file holds.
TsvRows ==
    {TsvRow("g1", "1", 100, 200, "ok"), TsvRow("g2", "2", 100, 200, "ok"),
     TsvRow("g3", "1", 100, 200, "bad_gene"),
     TsvRow("g4", "1", 100, 200, "bad_attributes")}

\* Between two runs the TSV file is replaced by a new one of at most one row.
NewTsv ==
    /\ \A w \in Workers : call[w] = Idle
    /\ queue = {}
    /\ release[GeneSource] < MaxRelease
    /\ release' = [release EXCEPT ![GeneSource] = release[GeneSource] + 1]
    /\ \E q \in SeqUpTo(TsvRows, 1) :
          /\ q # tsv
          /\ tsv' = q
    /\ UNCHANGED <<Gene, nodeVariant, metadata, shares, building, saved, nops, batch_size,
                   dispatched, schema, uniqueKeys, assembly, contigs, records, storeVars,
                   schedVars, call, histVars>>

\* The Gene rows earlier runs left: of this source and of another one.
EarlierGenes ==
    {<<>>,
     <<GeneOf(OtherGenes, TsvRow("g1", "1", 100, 200, "ok"))>>,
     <<GeneOf(GeneSource, TsvRow("g0", "1", 300, 400, "ok"))>>,
     <<GeneOf(GeneSource, TsvRow("g0", "1", 300, 400, "ok")),
       GeneOf(OtherGenes, TsvRow("g1", "1", 100, 200, "ok"))>>}

InitGeneLoad ==
    /\ InitStore
    /\ InitScheduler
    /\ Gene \in EarlierGenes
    /\ nodeVariant = [n \in Nodes |-> 0]
    /\ metadata = [n \in Nodes |-> <<>>]
    /\ shares = [n \in Nodes |-> {n}]
    /\ building = [n \in Nodes |-> "PENDING"]
    /\ saved = [n \in Nodes |-> [metadata |-> <<>>, building |-> "PENDING"]]
    /\ nops = 0
    /\ tsv \in SeqUpTo(TsvRows, MaxTsv)
    /\ batch_size \in 1..MaxBatch
    /\ dispatched = [f \in Factories |-> <<>>]
    /\ schema = [f \in Sources |-> NoSchema]
    /\ assembly = [f \in Factories |-> "GRCh38"]
    /\ contigs = [f \in Factories |-> <<>>]
    /\ records = NoRecords

NextGeneLoad ==
    \/ DeliverLoadGenes
    \/ NewTsv
    \/ \E w \in Workers : \E m \in queue : StartSerial(w, m)
    \/ \E w \in Workers : LoadGenesDelete(w)
    \/ \E w \in Workers : LoadGenesBatch(w)
    \/ \E w \in Workers : Finish(w)

\* Complete, non-overlapping runs of load_genes.
SpecGeneLoad == InitGeneLoad /\ [][NextGeneLoad]_vars

\* The rows a TSV file of SpecBatches holds: valid ones and ones get_genes
\* drops.
BatchRows ==
    {TsvRow("g1", "1", 100, 200, "ok"), TsvRow("g2", "2", 100, 200, "ok"),
     TsvRow("g5", "1", 300, 400, "ok"), TsvRow("g3", "1", 100, 200, "bad_gene")}

\* As InitGeneLoad, for files of up to MaxValid rows none of which makes the
\* reader raise; both gene sources have a row of an earlier run.
InitBatches ==
    /\ InitStore
    /\ InitScheduler
    /\ Gene = <<GeneOf(GeneSource, TsvRow("g0", "1", 300, 400, "ok")),
                GeneOf(OtherGenes, TsvRow("g1", "1", 100, 200, "ok"))>>
    /\ nodeVariant = [n \in Nodes |-> 0]
    /\ metadata = [n \in Nodes |-> <<>>]
    /\ shares = [n \in Nodes |-> {n}]
    /\ building = [n \in Nodes |-> "PENDING"]
    /\ saved = [n \in Nodes |-> [metadata |-> <<>>, building |-> "PENDING"]]
    /\ nops = 0
    /\ tsv \in SeqUpTo(BatchRows, MaxValid)
    /\ batch_size \in 1..MaxBatch
    /\ dispatched = [f \in Factories |-> <<>>]
    /\ schema = [f \in Sources |-> NoSchema]
    /\ assembly = [f \in Factories |-> "GRCh38"]
    /\ contigs = [f \in Factories |-> <<>>]
    /\ records = NoRecords

NextBatches ==
    \/ DeliverLoadGenes
    \/ \E w \in Workers : \E m \in queue : StartSerial(w, m)
    \/ \E w \in Workers : LoadGenesDelete(w)
    \/ \E w \in Workers : LoadGenesBatch(w)
    \/ \E w \in Workers : Finish(w)

\* Complete, non-overlapping runs of load_genes over streams of valid records.
SpecBatches == InitBatches /\ [][NextBatches]_vars

\* GnomadConstraintFactory.load(): the chain is sent; its first task is due.
LoadGeneSource ==
    /\ chain[GeneSource] = 0
    /\ chain' = [chain EXCEPT ![GeneSource] = 1]
    /\ queue' = queue \cup {Message(GeneChainTasks[1], GeneSource, "none", 1)}
    /\ UNCHANGED <<metaVars, envVars, storeVars, loading, call, histVars>>

\* As InitGeneLoad, with the batch size load() passes; the smaller ones stand
\* for the files of more than one batch of that size.
InitGenePipeline ==
    /\ InitStore
    /\ InitScheduler
    /\ Gene \in EarlierGenes
    /\ nodeVariant = [n \in Nodes |-> 0]
    /\ metadata = [n \in Nodes |-> <<>>]
    /\ shares = [n \in Nodes |-> {n}]
    /\ building = [n \in Nodes |-> "PENDING"]
    /\ saved = [n \in Nodes |-> [metadata |-> <<>>, building |-> "PENDING"]]
    /\ nops = 0
    /\ tsv \in SeqUpTo(TsvRows, MaxTsv)
    /\ batch_size \in (1..MaxBatch) \cup {LoadBatchSize}
    /\ dispatched = [f \in Factories |-> <<>>]
    /\ schema = [f \in Sources |-> NoSchema]
    /\ assembly = [f \in Factories |-> "GRCh38"]
    /\ contigs = [f \in Factories |-> <<>>]
    /\ records = NoRecords

NextGenePipeline ==
    \/ LoadGeneSource
    \/ \E w \in Workers : \E m \in queue : Start(w, m)
    \/ \E w \in Workers : MarkLoading(w)
    \/ \E w \in Workers : LoadGenesDelete(w)
    \/ \E w \in Workers : LoadGenesBatch(w)
    \/ \E w \in Workers : Finish(w)

\* The pipeline GnomadConstraintFactory.load() starts, run by the workers.
SpecGenePipeline == InitGenePipeline /\ [][NextGenePipeline]_vars

\* ------------------------------------------------------------ lifecycle
\* load() is called on one source, of either kind.
LoadOne(s) ==
    /\ \A g \in Sources : chain[g] = 0
    /\ IF s = GeneSource THEN LoadGeneSource ELSE Load(s)

\* The files of a positional pipeline, or the file of the gene pipeline read
\* with the batch size load() passes into a store without Gene rows.
InitLifecycle ==
    \/ InitPipeline
    \/ InitGenePipeline /\ Gene = <<>> /\ batch_size = LoadBatchSize

\* What the scheduler and its workers do once load() has sent the chain.
Work ==
    \/ \E w \in Workers : \E m \in queue : StartSerial(w, m)
    \/ \E w \in Workers : MarkLoading(w)
    \/ \E w \in Workers : LoadRegionsGet(w)
    \/ \E w \in Workers : LoadRegionsSave(w)
    \/ \E w \in Workers : LoadVariantsDelay(w)
    \/ \E w \in Workers : RegionGet(w)
    \/ \E w \in Workers : VariantGet(w)
    \/ \E w \in Workers : VariantCreate(w)
    \/ \E w \in Workers : AnnotationGet(w)
    \/ \E w \in Workers : AnnotationCreate(w)
    \/ \E w \in Workers : LoadGenesDelete(w)
    \/ \E w \in Workers : LoadGenesBatch(w)
    \/ \E w \in Workers : Finish(w)

NextLifecycle ==
    \/ \E s \in Sources : LoadOne(s)
    \/ Work

\* One pipeline run, its tasks taken one at a time in any order; the scheduler
\* runs every task that is due and a worker goes on with the task it has.
SpecLifecycle == InitLifecycle /\ [][NextLifecycle]_vars /\ WF_vars(Work)

\* --------------------------------------------------------- run() dispatch
\* The names run() is called with: the stage functions of the three sources and
\* a method that is in no stage list.
FunctionNames == Stages \cup GeneStages \cup {"load"}

\* The scheduler delivers factory_run(pk, function_name=name, kwargs) with the
\* kwargs the named function takes, once the work of the call before is done.
DeliverRun(f, name) ==
    LET m == Message(name, f, IF name = "load_variants_for_region" THEN "1" ELSE "none", 0)
    IN  /\ ncalls < MaxLoads
        /\ queue = {}
        /\ \A w \in Workers : call[w] = Idle
        /\ queue' = queue \cup {m}
        /\ ncalls' = ncalls + 1
        /\ UNCHANGED <<metaVars, envVars, storeVars, loading, chain, call, outcomes,
                       discoverer, written>>

\* Each file holds one valid record or row; contig "1" may have its Region; both
\* gene sources have a row.
InitRun ==
    /\ uniqueKeys \in BOOLEAN
    /\ Region \in {<<>>, <<RegionRow("GRCh38", "1", "clinvar")>>}
    /\ Variant = <<>>
    /\ VariantAnnotation = <<>>
    /\ InitScheduler
    /\ Gene = <<GeneOf(GeneSource, TsvRow("g0", "1", 300, 400, "ok")),
                GeneOf(OtherGenes, TsvRow("g1", "1", 100, 200, "ok"))>>
    /\ nodeVariant = [n \in Nodes |-> 0]
    /\ metadata = [n \in Nodes |-> <<>>]
    /\ shares = [n \in Nodes |-> {n}]
    /\ building = [n \in Nodes |-> "PENDING"]
    /\ saved = [n \in Nodes |-> [metadata |-> <<>>, building |-> "PENDING"]]
    /\ nops = 0
    /\ tsv = <<TsvRow("g1", "1", 100, 200, "ok")>>
    /\ batch_size = LoadBatchSize
    /\ dispatched = [f \in Factories |-> <<>>]
    /\ schema = [f \in Sources |-> NoSchema]
    /\ assembly = [f \in Factories |-> "GRCh38"]
    /\ contigs = [f \in Factories |-> <<"1">>]
    /\ records = [f \in Factories |-> [c \in Contigs |->
                    IF c = "1" THEN <<VcfRecord(150, <<"A">>, <<"T">>, "p1")>> ELSE <<>>]]

NextRun ==
    \/ \E f \in Sources : \E name \in FunctionNames : DeliverRun(f, name)
    \/ \E w \in Workers : \E m \in queue : StartSerial(w, m)
    \/ \E w \in Workers : LoadRegionsGet(w)
    \/ \E w \in Workers : LoadRegionsSave(w)
    \/ \E w \in Workers : LoadVariantsDelay(w)
    \/ \E w \in Workers : RegionGet(w)
    \/ \E w \in Workers : VariantGet(w)
    \/ \E w \in Workers : VariantCreate(w)
    \/ \E w \in Workers : AnnotationGet(w)
    \/ \E w \in Workers : AnnotationCreate(w)
    \/ \E w \in Workers : LoadGenesDelete(w)
    \/ \E w \in Workers : LoadGenesBatch(w)
    \/ \E w \in Workers : Finish(w)

\* run() called with any name on any source, one call at a time.
SpecRun == InitRun /\ [][NextRun]_vars

\* ------------------------------------------------ annotation merge engine
EmptyPayload == "{}"                    \* variant_annotation = {}

\* variant.region.aliases
RegionAliases(r) ==
    IF Region[r].seqid = "1" THEN {"1", "chr1"} ELSE {"2", "chr2"}

NodeAnnotationsAnySource(f, n) ==
    {k \in DOMAIN VariantAnnotation : VariantAnnotation[k].variant = nodeVariant[n]}

\* VariantAnnotation.objects filter(factory=self, variant=node.variant)
NodeAnnotations(f, n) ==
    {k \in DOMAIN VariantAnnotation : /\ VariantAnnotation[k].factory = f
                                      /\ VariantAnnotation[k].variant = nodeVariant[n]}

\* get() on several rows raises MultipleObjectsReturned, which
\* "except ObjectDoesNotExist" does not catch.
LookupRaises(f, n) == Cardinality(NodeAnnotations(f, n)) > 1

\* try: ....get(factory=self, variant=...).metadata
\* except ObjectDoesNotExist: variant_annotation = {}
VariantAnnotationOf(f, n) ==
    LET ks == NodeAnnotations(f, n)
    IN  IF ks = {} THEN EmptyPayload
        ELSE VariantAnnotation[CHOOSE k \in ks : TRUE].metadata

\* {"variant_annotations": [variant_annotation]}
AnnotationContribution(f, n) ==
    [variant_annotations |-> <<VariantAnnotationOf(f, n)>>]

GeneOverlapsFromPos(f, n, k) ==
    LET v == Variant[nodeVariant[n]]
        g == Gene[k]
    IN  /\ g.factory = f
        /\ g.metadata.chromosome \in RegionAliases(v.region)
        /\ g.metadata.start_position <= v.pos
        /\ g.metadata.end_position >= v.pos

\* Gene.objects.filter(factory=self,
\*     metadata__chromosome__in=variant.region.aliases,
\*     metadata__start_position__lte=variant.pos + len(variant.ref),
\*     metadata__end_position__gte=variant.pos)
GeneOverlaps(f, n, k) ==
    LET v == Variant[nodeVariant[n]]
        g == Gene[k]
    IN  /\ g.factory = f
        /\ g.metadata.chromosome \in RegionAliases(v.region)
        /\ g.metadata.start_position <= v.pos + Len(v.ref)
        /\ g.metadata.end_position >= v.pos

\* [gene.metadata for gene in Gene.objects.filter(...)], rows k.. of the table
RECURSIVE GenesFrom(_, _, _)
GenesFrom(f, n, k) ==
    IF k > Len(Gene) THEN <<>>
    ELSE (IF GeneOverlaps(f, n, k) THEN <<Gene[k].metadata>> ELSE <<>>)
         \o GenesFrom(f, n, k + 1)

\* {"genes": [...]}
GenesContribution(f, n) == [genes |-> GenesFrom(f, n, 1)]

\* The node objects: their documents, which of them are one dict object, their
\* build states, their saved rows.
Objects ==
    [metadata |-> metadata, shares |-> shares, building |-> building,
     saved |-> saved, raised |-> FALSE]

\* node.metadata = {"factories": {str(self.pk): c}}   (a new dict)
\* node.building = BUILDING_SUCCESS; node.save()
AssignNew(st, n, f, c) ==
    LET d == [factories |-> [k \in {f} |-> c]]
    IN  [st EXCEPT !.metadata = [st.metadata EXCEPT ![n] = d],
                   !.shares = [m \in Nodes |-> IF m = n THEN {n}
                                               ELSE st.shares[m] \ {n}],
                   !.building = [st.building EXCEPT ![n] = "SUCCESS"],
                   !.saved = [st.saved EXCEPT
                                ![n] = [metadata |-> d, building |-> "SUCCESS"]]]

AssignMergedOwnKeyOnly(st, n, p, f, c) ==
    AssignNew(st, n, f, c)

\* metadata = parent.metadata              (the parent's dict, not a copy)
\* metadata["factories"][str(self.pk)] = c (written into that dict)
\* node.metadata = metadata; node.building = BUILDING_SUCCESS; node.save()
AssignMerged(st, n, p, f, c) ==
    LET old == st.metadata[p].factories
        d   == [factories |-> [k \in DOMAIN old \cup {f} |->
                                  IF k = f THEN c ELSE old[k]]]
        cls == st.shares[p] \cup {n}
    IN  [st EXCEPT !.metadata = [m \in Nodes |-> IF m \in cls THEN d
                                                 ELSE st.metadata[m]],
                   !.shares = [m \in Nodes |-> IF m \in cls THEN cls
                                               ELSE st.shares[m] \ {n}],
                   !.building = [st.building EXCEPT ![n] = "SUCCESS"],
                   !.saved = [st.saved EXCEPT
                                ![n] = [metadata |-> d, building |-> "SUCCESS"]]]

\* ClinvarFactory.init_metadata: for node in nodes[i..]; the loop ends at the
\* node whose lookup raises.
RECURSIVE InitNodes(_, _, _, _)
InitNodes(st, f, ns, i) ==
    IF i > Len(ns) THEN st
    ELSE IF LookupRaises(f, ns[i]) THEN [st EXCEPT !.raised = TRUE]
    ELSE InitNodes(AssignNew(st, ns[i], f, AnnotationContribution(f, ns[i])),
                   f, ns, i + 1)

\* GnomadConstraintFactory.init_metadata: for node in nodes[i..]
RECURSIVE GenesInitNodes(_, _, _, _)
GenesInitNodes(st, f, ns, i) ==
    IF i > Len(ns) THEN st
    ELSE GenesInitNodes(AssignNew(st, ns[i], f, GenesContribution(f, ns[i])),
                        f, ns, i + 1)

\* The nodes a node is derived from: merge_metadata is called with a node and
\* one of its parents.
Parents(n) ==
    IF n = "n2" THEN {"n1"} ELSE IF n = "n3" THEN {"n1", "n2"} ELSE {}

\* The lists of nodes init_metadata is called with.
NodeLists ==
    {<<n>> : n \in Nodes} \cup {<<"n1", "n2">>, <<"n2", "n3">>, <<"n3", "n1">>}

\* The call leaves the node objects st.
Called(st) ==
    /\ metadata' = st.metadata
    /\ shares' = st.shares
    /\ building' = st.building
    /\ saved' = st.saved
    /\ nops' = nops + 1
    /\ UNCHANGED <<envVars, storeVars, schedVars, call, histVars, Gene, nodeVariant,
                   extVars>>

\* ClinvarFactory.init_metadata / GnomadFactory.init_metadata
InitMetadata(f, ns) ==
    /\ nops < MaxOps
    /\ Called(InitNodes(Objects, f, ns, 1))

\* metadata["factories"][...] = ... raises KeyError on a parent document
\* without the "factories" key.
NoFactoriesKey(p) == "factories" \notin DOMAIN metadata[p]

\* ClinvarFactory.merge_metadata / GnomadFactory.merge_metadata: the lookup
\* may raise MultipleObjectsReturned and metadata["factories"] KeyError, both
\* before anything is written.
MergeMetadata(f, n, p) ==
    /\ nops < MaxOps
    /\ n # p
    /\ Called(IF LookupRaises(f, n) \/ NoFactoriesKey(p)
              THEN [Objects EXCEPT !.raised = TRUE]
              ELSE AssignMerged(Objects, n, p, f, AnnotationContribution(f, n)))

\* GnomadConstraintFactory.init_metadata
GenesInitMetadata(ns) ==
    /\ nops < MaxOps
    /\ Called(GenesInitNodes(Objects, GeneSource, ns, 1))

\* GnomadConstraintFactory.merge_metadata
GenesMergeMetadata(n, p) ==
    /\ nops < MaxOps
    /\ n # p
    /\ Called(IF NoFactoriesKey(p)
              THEN [Objects EXCEPT !.raised = TRUE]
              ELSE AssignMerged(Objects, n, p, GeneSource,
                                GenesContribution(GeneSource, n)))

GeneRow(f, chromosome, start, end) ==
    [factory |-> f,
     metadata |-> [chromosome |-> chromosome, start_position |-> start,
                   end_position |-> end]]

\* Node objects as the node tree hands them over: empty documents, PENDING.
InitNodesPending ==
    /\ InitNoGeneLoad
    /\ nodeVariant = [n \in Nodes |-> IF n = "n2" THEN 2 ELSE 1]
    /\ metadata = [n \in Nodes |-> <<>>]
    /\ shares = [n \in Nodes |-> {n}]
    /\ building = [n \in Nodes |-> "PENDING"]
    /\ saved = [n \in Nodes |-> [metadata |-> <<>>, building |-> "PENDING"]]
    /\ nops = 0

\* The Annotation Rows region loads may have left for variant 1.
AnnotationRows ==
    <<[factory |-> "clinvar", variant |-> 1, metadata |-> "p1"],
      [factory |-> "gnomad", variant |-> 1, metadata |-> "p2"],
      [factory |-> "clinvar", variant |-> 1, metadata |-> "p2"]>>

\* The subsequence of q at the indices in S.
RECURSIVE Pick(_, _, _)
Pick(q, S, k) ==
    IF k > Len(q) THEN <<>>
    ELSE (IF k \in S THEN <<q[k]>> ELSE <<>>) \o Pick(q, S, k + 1)

\* The VariantAnnotation tables of SpecMerge: at most MaxRows of these rows,
\* and one row per (factory, variant) where the store enforces it.
MergeAnnotationTables ==
    {Pick(AnnotationRows, S, 1) :
        S \in {X \in SUBSET DOMAIN AnnotationRows :
                 /\ Cardinality(X) <= MaxRows
                 /\ uniqueKeys =>
                       \A a, b \in X :
                           AnnotationRows[a].factory = AnnotationRows[b].factory
                           => a = b}}

InitMerge ==
    /\ uniqueKeys \in BOOLEAN
    /\ Region = <<RegionRow("GRCh38", "1", "clinvar")>>
    /\ Variant = <<[region |-> 1, pos |-> 150, ref |-> <<"A">>, alt |-> <<"T">>],
                   [region |-> 1, pos |-> 250, ref |-> <<"A">>, alt |-> <<"T">>]>>
    /\ VariantAnnotation \in MergeAnnotationTables
    /\ Gene = <<GeneRow(GeneSource, "1", 100, 200), GeneRow(OtherGenes, "1", 100, 200)>>
    /\ InitScheduler
    /\ InitNodesPending
    /\ assembly = [f \in Factories |-> "GRCh38"]
    /\ contigs = [f \in Factories |-> <<"1">>]
    /\ records = NoRecords

NextMerge ==
    \/ \E f \in Factories : \E ns \in NodeLists : InitMetadata(f, ns)
    \/ \E f \in Factories : \E n \in Nodes : \E p \in Parents(n) : MergeMetadata(f, n, p)
    \/ \E ns \in NodeLists : GenesInitMetadata(ns)
    \/ \E n \in Nodes : \E p \in Parents(n) : GenesMergeMetadata(n, p)

\* init_metadata and merge_metadata calls of the three sources on the nodes.
SpecMerge == InitMerge /\ [][NextMerge]_vars

\* get_schema(): the contribution key of {str(self.pk): {key: ...schema()}}
SchemaKey(f) == IF f = "clinvar" THEN "variant_annotations" ELSE "genes"

\* get_schema() of source f returns its document.
GetSchema(f) ==
    /\ schema' = [schema EXCEPT ![f] = [id |-> f, key |-> SchemaKey(f)]]
    /\ UNCHANGED <<envVars, storeVars, schedVars, call, histVars, Gene, nodeVariant,
                   metadata, shares, building, saved, nops, tsv, batch_size,
                   dispatched>>

NextSchema ==
    \/ \E f \in Sources : GetSchema(f)
    \/ \E f \in Factories : \E ns \in NodeLists : InitMetadata(f, ns)
    \/ \E f \in Factories : \E n \in Nodes : \E p \in Parents(n) : MergeMetadata(f, n, p)
    \/ \E ns \in NodeLists : GenesInitMetadata(ns)
    \/ \E n \in Nodes : \E p \in Parents(n) : GenesMergeMetadata(n, p)

\* get_schema, init_metadata and merge_metadata calls of the three sources.
SpecSchema == InitMerge /\ [][NextSchema]_vars

\* The Gene rows load_genes may have left: this source's and another one's.
GeneRows ==
    <<GeneRow(GeneSource, "1", 100, 200), GeneRow(GeneSource, "chr1", 100, 200),
      GeneRow(GeneSource, "2", 100, 200), GeneRow(OtherGenes, "1", 100, 200)>>

\* The variants of the nodes n1 and n3 in SpecGenes: around the ends of [100, 200].
GeneVariants ==
    {[region |-> 1, pos |-> x, ref |-> r, alt |-> <<"T">>] :
        x \in {98, 99, 150, 201}, r \in {<<"A">>, <<"A", "C">>}}

InitGenes ==
    /\ uniqueKeys \in BOOLEAN
    /\ Region = <<RegionRow("GRCh38", "1", "clinvar")>>
    /\ \E v \in GeneVariants :
          Variant = <<v, [region |-> 1, pos |-> 250, ref |-> <<"A">>, alt |-> <<"T">>]>>
    /\ VariantAnnotation = <<>>
    /\ \E S \in SUBSET DOMAIN GeneRows :
          /\ Cardinality(S) <= MaxGenes
          /\ Gene = Pick(GeneRows, S, 1)
    /\ InitScheduler
    /\ InitNodesPending
    /\ assembly = [f \in Factories |-> "GRCh38"]
    /\ contigs = [f \in Factories |-> <<"1">>]
    /\ records = NoRecords

NextGenes ==
    \/ \E ns \in NodeLists : GenesInitMetadata(ns)
    \/ \E n \in Nodes : \E p \in Parents(n) : GenesMergeMetadata(n, p)

\* init_metadata and merge_metadata calls of the gene-constraint source.
SpecGenes == InitGenes /\ [][NextGenes]_vars

\* ------------------------------------------------------------ C3, C4
RegionKey(k) == <<Region[k].assembly, Region[k].seqid>>

Quiescent == \A w \in Workers : call[w] = Idle

\* Two finished load_regions calls that overlapped on one (assembly, seqid):
\* both looked the key up, whoever they were.
RacedOn(key) ==
    \E a, b \in DOMAIN outcomes :
        /\ a # b
        /\ assembly[outcomes[a].self] = key[1]
        /\ assembly[outcomes[b].self] = key[1]
        /\ \E x \in DOMAIN contigs[outcomes[a].self] :
               contigs[outcomes[a].self][x] = key[2]
        /\ \E y \in DOMAIN contigs[outcomes[b].self] :
               contigs[outcomes[b].self][y] = key[2]

\* C3: when load_regions runs concurrently for the same (assembly, seqid),
\* however the lookups and creates interleave, no caller ends in an error and
\* exactly one Region row for the key is persisted.
C3_RaceKeepsOneRow ==
    /\ \A j \in DOMAIN outcomes : ~outcomes[j].raised
    /\ Quiescent =>
         \A key \in Assemblies \X Contigs :
             RacedOn(key) =>
                 Cardinality({k \in DOMAIN Region : RegionKey(k) = key}) = 1

\* C4 (state part): at most one Region per (assembly, seqid), owned by the
\* source that first discovered the key.
C4_OneRegionPerKey ==
    /\ \A k1, k2 \in DOMAIN Region : RegionKey(k1) = RegionKey(k2) => k1 = k2
    /\ \A k \in DOMAIN Region : Region[k].factory = discoverer[RegionKey(k)]

\* A step of a load_regions call of a source that has completed one before.
RepeatedStep ==
    \E w \in Workers :
        /\ call[w].fn = "load_regions"
        /\ call'[w] # call[w]
        /\ \E j \in DOMAIN outcomes :
               /\ outcomes[j].fn = "load_regions"
               /\ outcomes[j].self = call[w].self
               /\ ~outcomes[j].raised

\* C4: after any sequence of complete, non-overlapping load_regions calls
\* there is at most one Region per (assembly, seqid) and its owner is the source
\* that first discovered it; no call raises; and a second call of load_regions
\* on the same source and file changes no Region row and no owner.
C4_SerialDiscoveryIdempotent ==
    /\ [](C4_OneRegionPerKey /\ \A j \in DOMAIN outcomes : ~outcomes[j].raised)
    /\ [][RepeatedStep => Region' = Region]_vars

\* Both sources share an assembly and a contig, each has completed load_regions
\* and one of them twice; the shared contig has its row.
C4_Witness ==
    /\ Quiescent
    /\ Len(outcomes) = 3
    /\ outcomes[1].self = outcomes[3].self
    /\ outcomes[2].self # outcomes[1].self
    /\ assembly[outcomes[1].self] = assembly[outcomes[2].self]
    /\ \E k \in DOMAIN Region :
          /\ Region[k].factory = outcomes[1].self
          /\ \E x \in DOMAIN contigs[outcomes[2].self] :
                 contigs[outcomes[2].self][x] = Region[k].seqid

\* ------------------------------------------------------------ C1, C2
RegionLoadPending(f) ==
    \/ \E m \in queue : m.fn = "load_variants_for_region" /\ m.self = f
    \/ \E w \in Workers : call[w].fn = "load_variants_for_region" /\ call[w].self = f

RegionLoadSucceeded(f, c) ==
    \E j \in DOMAIN outcomes :
        /\ outcomes[j].fn = "load_variants_for_region"
        /\ outcomes[j].self = f
        /\ outcomes[j].region = c
        /\ ~outcomes[j].raised

RegionLoadFailed(f) ==
    \E j \in DOMAIN outcomes :
        /\ outcomes[j].fn = "load_variants_for_region"
        /\ outcomes[j].self = f
        /\ outcomes[j].raised
        /\ outcomes[j].final

\* C1: a source is LOADED only after every load_variants_for_region work unit
\* that load_variants dispatched has completed successfully: it is never LOADED
\* while a dispatched region load is still pending or running.
C1_LoadedOnlyAfterRegionLoads ==
    \A f \in Factories :
        loading[f] = "LOADED" =>
            /\ ~RegionLoadPending(f)
            /\ \A x \in DOMAIN contigs[f] : RegionLoadSucceeded(f, contigs[f][x])

\* C2: once a region load of a source has failed for good the source is not
\* LOADED, and when its pipeline has come to rest the source is FAILED.
C2_FailedRegionLoadFailsSource ==
    \A f \in Factories :
        RegionLoadFailed(f) =>
            /\ loading[f] # "LOADED"
            /\ (Quiescent /\ queue = {}) => loading[f] = "FAILED"

\* ------------------------------------------------------------ C5, C6
\* The payload of the first Annotation Row inserted for (factory, variant).
FirstWritten(f, v) ==
    LET ks == {k \in DOMAIN written : written[k].factory = f /\ written[k].variant = v}
    IN  written[CHOOSE k \in ks : \A j \in ks : k <= j].metadata

\* C5: there is at most one VariantAnnotation row per (source, variant) and
\* it holds the payload of the first record written for that key: a later record
\* with the same key and another payload, in the same stream or in a reload,
\* leaves the row untouched and creates no second row.
C5_OneRowFirstPayload ==
    /\ \A k1, k2 \in DOMAIN VariantAnnotation :
          (/\ VariantAnnotation[k1].factory = VariantAnnotation[k2].factory
           /\ VariantAnnotation[k1].variant = VariantAnnotation[k2].variant)
          => k1 = k2
    /\ \A k \in DOMAIN VariantAnnotation :
          VariantAnnotation[k].metadata =
              FirstWritten(VariantAnnotation[k].factory, VariantAnnotation[k].variant)

\* A step of a region load whose source has already finished a load of the same
\* region from the same release of its file.
RepeatedLoadStep ==
    \E w \in Workers :
        /\ call[w].fn = "load_variants_for_region"
        /\ call'[w] # call[w]
        /\ \E j \in DOMAIN outcomes :
               /\ outcomes[j].fn = "load_variants_for_region"
               /\ outcomes[j].self = call[w].self
               /\ outcomes[j].region = call[w].region
               /\ outcomes[j].release = release[call[w].self]

\* C6: running load_variants_for_region again for the same source and region
\* over the same input adds no Variant and no VariantAnnotation row and changes
\* no row.
C6_ReloadChangesNothing ==
    [][RepeatedLoadStep => (Variant' = Variant /\ VariantAnnotation' = VariantAnnotation)]_vars

\* A source has loaded the same non-empty region twice from the same release,
\* both runs returned, and rows are there.
C6_Witness ==
    \E a, b \in DOMAIN outcomes :
        /\ a < b
        /\ outcomes[a].fn = "load_variants_for_region"
        /\ outcomes[b].fn = "load_variants_for_region"
        /\ outcomes[a].self = outcomes[b].self
        /\ outcomes[a].release = outcomes[b].release
        /\ release[outcomes[a].self] = outcomes[a].release
        /\ ~outcomes[a].raised
        /\ ~outcomes[b].raised
        /\ records[outcomes[a].self]["1"] # <<>>
        /\ \E k \in DOMAIN VariantAnnotation :
               VariantAnnotation[k].factory = outcomes[a].self

\* ------------------------------------------------------- C7, C8, C9, C10
\* merge_metadata(n, p) of source f has run and returned.
MergeReturned(f, n, p) ==
    IF f = GeneSource
    THEN GenesMergeMetadata(n, p) /\ ~NoFactoriesKey(p)
    ELSE MergeMetadata(f, n, p) /\ ~NoFactoriesKey(p) /\ ~LookupRaises(f, n)

\* C7: the node document a merge_metadata(node, parent) call of any source
\* produces holds every key under "factories" other than the source's own with
\* the value it had in the parent's document, and the source's own key; it is
\* the document saved for the node.
C7_MergeKeepsSiblingKeys ==
    [][\A f \in Factories \cup {GeneSource} : \A n \in Nodes : \A p \in Parents(n) :
          MergeReturned(f, n, p) =>
              /\ "factories" \in DOMAIN metadata'[n]
              /\ DOMAIN metadata'[n].factories = DOMAIN metadata[p].factories \cup {f}
              /\ \A k \in DOMAIN metadata[p].factories \ {f} :
                     metadata'[n].factories[k] = metadata[p].factories[k]
              /\ saved'[n].metadata = metadata'[n]]_vars

\* A node built by a merge: its document holds the keys of two sources.
C7_Witness ==
    \E n \in Nodes :
        /\ building[n] = "SUCCESS"
        /\ "factories" \in DOMAIN metadata[n]
        /\ Cardinality(DOMAIN metadata[n].factories) >= 2
        /\ saved[n].metadata = metadata[n]

\* C8: merge_metadata(node, parent) leaves the parent node's document as it
\* was before the call.
C8_MergeLeavesParentDocument ==
    [][\A f \in Factories \cup {GeneSource} : \A n \in Nodes : \A p \in Parents(n) :
          MergeReturned(f, n, p) => metadata'[p] = metadata[p]]_vars

\* init_metadata(ns) of the per-variant annotation source f has run and returned.
InitReturned(f, ns) ==
    /\ InitMetadata(f, ns)
    /\ \A i \in DOMAIN ns : ~LookupRaises(f, ns[i])

\* C9: an init_metadata(nodes) call of Clinvar / Gnomad that returns has set
\* every node's document to exactly {"factories": {<source id>: {"variant_annotations": [p]}}}, p the
\* payload of the source's Annotation Row for the node's variant or the empty
\* document when there is none, whatever document the node had; has set its
\* build state to SUCCESS and saved it; and has modified no Annotation Row.
C9_InitSetsOwnContribution ==
    [][\A f \in Factories : \A ns \in NodeLists :
          InitReturned(f, ns) =>
              /\ VariantAnnotation' = VariantAnnotation
              /\ \A i \in DOMAIN ns :
                   LET rows == {k \in DOMAIN VariantAnnotation :
                                   /\ VariantAnnotation[k].factory = f
                                   /\ VariantAnnotation[k].variant = nodeVariant[ns[i]]}
                   IN  /\ building'[ns[i]] = "SUCCESS"
                       /\ saved'[ns[i]] = [metadata |-> metadata'[ns[i]],
                                           building |-> "SUCCESS"]
                       /\ \E x \in Payloads \cup {EmptyPayload} :
                            /\ metadata'[ns[i]] =
                                 [factories |->
                                    [k \in {f} |-> [variant_annotations |-> <<x>>]]]
                            /\ IF rows = {} THEN x = EmptyPayload
                               ELSE \E k \in rows : VariantAnnotation[k].metadata = x]_vars

\* After two calls or more: a node whose document holds the payload of the row
\* of its variant, and a node whose variant has no row and whose document holds
\* the empty payload.
C9_Witness ==
    /\ nops >= 2
    /\ \E f \in Factories : \E n, m \in Nodes :
          /\ building[n] = "SUCCESS"
          /\ building[m] = "SUCCESS"
          /\ \E k \in DOMAIN VariantAnnotation :
                /\ VariantAnnotation[k].factory = f
                /\ VariantAnnotation[k].variant = nodeVariant[n]
                /\ metadata[n] = [factories |-> [j \in {f} |->
                      [variant_annotations |-> <<VariantAnnotation[k].metadata>>]]]
          /\ metadata[m] = [factories |-> [j \in {f} |->
                              [variant_annotations |-> <<EmptyPayload>>]]]

\* The number of times x occurs in the list q.
Occurrences(q, x) == Cardinality({i \in DOMAIN q : q[i] = x})

\* The "genes" list of node n after the step holds exactly the metadata of the
\* Gene rows of this source that overlap n's variant on an alias of its region.
GenesListed(n) ==
    LET v    == Variant[nodeVariant[n]]
        list == metadata'[n].factories[GeneSource].genes
    IN  \A x \in {Gene[k].metadata : k \in DOMAIN Gene} \cup {list[i] : i \in DOMAIN list} :
            Occurrences(list, x) =
                Cardinality({k \in DOMAIN Gene :
                    /\ Gene[k].metadata = x
                    /\ Gene[k].factory = GeneSource
                    /\ Gene[k].metadata.start_position <= v.pos + Len(v.ref)
                    /\ Gene[k].metadata.end_position >= v.pos
                    /\ \E a \in RegionAliases(v.region) :
                           Gene[k].metadata.chromosome = a})

\* C10: the "genes" list init_metadata and merge_metadata of the gene-constraint
\* source write for a node contains a gene of this source if and only if
\* gene.start_position <= variant.pos + len(variant.ref), gene.end_position >=
\* variant.pos and gene.chromosome is an alias of the variant's region; genes of
\* other sources are never listed.
C10_GenesOverlapVariant ==
    [][/\ \A ns \in NodeLists :
             GenesInitMetadata(ns) => \A i \in DOMAIN ns : GenesListed(ns[i])
       /\ \A n \in Nodes : \A p \in Parents(n) :
             MergeReturned(GeneSource, n, p) => GenesListed(n)]_vars

\* The gene [100, 200] on contig "1" is listed for the node at pos=150, ref="A"
\* and not for the node at pos=250, and an overlapping gene of another source
\* is in the table.
C10_Witness ==
    LET g == GeneRow(GeneSource, "1", 100, 200).metadata
    IN  /\ \E k \in DOMAIN Gene : Gene[k] = GeneRow(GeneSource, "1", 100, 200)
        /\ \E k \in DOMAIN Gene : Gene[k].factory = OtherGenes
        /\ Variant[1].pos = 150
        /\ Variant[1].ref = <<"A">>
        /\ building["n1"] = "SUCCESS"
        /\ building["n2"] = "SUCCESS"
        /\ metadata["n1"].factories[GeneSource].genes = <<g>>
        /\ metadata["n2"].factories[GeneSource].genes = <<>>

\* ------------------------------------------------------------------ C11
IsOk(row) == row.kind = "ok"

\* The Gene rows load_genes builds from the first i rows of the file.
GenesBuilt(f, i) == GenesOf(f, SelectSeq(SubSeq(tsv, 1, i), IsOk), 1)

OwnGenes(f) == LET Own(g) == g.factory = f IN SelectSeq(Gene, Own)

\* C11: load_genes replaces the source's Gene rows: the rows of earlier runs are
\* gone before the first batch is inserted, a run that returns leaves exactly
\* the rows built from the file (none for an empty file), and no step of it
\* changes the Gene rows of other sources.
C11_ReplaceOnReload ==
    /\ [](\A w \in Workers :
            (call[w].fn = "load_genes" /\ call[w].self = GeneSource) =>
                /\ call[w].pc = "batch" =>
                      OwnGenes(GeneSource) = GenesBuilt(GeneSource, call[w].i)
                /\ call[w].pc = "returned" =>
                      OwnGenes(GeneSource) = GenesBuilt(GeneSource, Len(tsv)))
    /\ [][OwnGenes(OtherGenes)' = OwnGenes(OtherGenes)]_vars

\* A run over a new and empty file has returned after an earlier run returned:
\* the source has no rows, the other source has its row.
C11_Witness ==
    \E w \in Workers :
        /\ call[w].fn = "load_genes"
        /\ call[w].pc = "returned"
        /\ release[GeneSource] = 1
        /\ tsv = <<>>
        /\ \E j \in DOMAIN outcomes :
              outcomes[j].fn = "load_genes" /\ ~outcomes[j].raised
        /\ OwnGenes(GeneSource) = <<>>
        /\ OwnGenes(OtherGenes) # <<>>

\* ------------------------------------------------------------- C12, C14
\* A Region row exists for contig c on the assembly of source f.
RegionPresent(f, c) ==
    \E k \in DOMAIN Region : Region[k].assembly = assembly[f] /\ Region[k].seqid = c

\* Record rec of source f's file for contig c is in the store: its Variant, and
\* an Annotation Row of f for it with the record's payload.
RecordLoaded(f, c, rec) ==
    \E v \in DOMAIN Variant :
        /\ Region[Variant[v].region].seqid = c
        /\ Region[Variant[v].region].assembly = assembly[f]
        /\ Variant[v].pos = rec.pos
        /\ Variant[v].ref = rec.ref
        /\ Variant[v].alt = rec.alt
        /\ \E k \in DOMAIN VariantAnnotation :
              /\ VariantAnnotation[k].factory = f
              /\ VariantAnnotation[k].variant = v
              /\ VariantAnnotation[k].metadata = rec.infos

\* C12: a record that fails validation is skipped and the work unit goes on: a
\* region load whose Region exists does not end in an error, and every valid
\* record of its stream, also after an invalid one, is loaded.
C12_InvalidRecordSkipped ==
    \A j \in DOMAIN outcomes :
        (/\ outcomes[j].fn = "load_variants_for_region"
         /\ outcomes[j].final
         /\ RegionPresent(outcomes[j].self, outcomes[j].region))
        => /\ ~outcomes[j].raised
           /\ \A i \in DOMAIN records[outcomes[j].self][outcomes[j].region] :
                LET rec == records[outcomes[j].self][outcomes[j].region][i]
                IN  rec.infos # BadInfos =>
                        RecordLoaded(outcomes[j].self, outcomes[j].region, rec)

\* C14: a region load for a contig without a Region row on the source's
\* assembly ends in an error at the Region lookup: it reads no record and no
\* step of it creates a Region, Variant or VariantAnnotation row.
C14_MissingRegionFails ==
    /\ [](\A w \in Workers :
            (/\ call[w].fn = "load_variants_for_region"
             /\ ~RegionPresent(call[w].self, call[w].region))
            => call[w].pc \in {"region_get", "raised"})
    /\ [][\A w \in Workers :
            (/\ call[w].fn = "load_variants_for_region"
             /\ ~RegionPresent(call[w].self, call[w].region)
             /\ call'[w] # call[w])
            => /\ Region' = Region
               /\ Variant' = Variant
               /\ VariantAnnotation' = VariantAnnotation
               /\ call[w].pc = "region_get" => call'[w].pc = "raised"]_vars

\* A region load of a contig whose Region exists on the other assembly only has
\* failed for good, its file holding a valid record, and the store has no
\* Variant.
C14_Witness ==
    \E j \in DOMAIN outcomes :
        /\ outcomes[j].fn = "load_variants_for_region"
        /\ outcomes[j].raised
        /\ outcomes[j].final
        /\ ~RegionPresent(outcomes[j].self, outcomes[j].region)
        /\ \E k \in DOMAIN Region : Region[k].seqid = outcomes[j].region
        /\ \E i \in DOMAIN records[outcomes[j].self][outcomes[j].region] :
              records[outcomes[j].self][outcomes[j].region][i].infos # BadInfos
        /\ Variant = <<>>

\* ------------------------------------------------------------------ C13
\* The states a stage function is in right after it has been entered: at its
\* first statement, or returned when its input is empty.
StageEntry(fn) ==
    IF fn = "load_regions" THEN {"get", "returned"}
    ELSE IF fn = "load_variants" THEN {"delay", "returned"}
    ELSE IF fn = "load_variants_for_region" THEN {"region_get"}
    ELSE {"delete"}

\* fr is a call of run() with a name outside the stage set of its source.
UnknownName(fr) ==
    /\ fr.self \in Sources
    /\ fr.fn \in FunctionNames
    /\ IF fr.self = GeneSource THEN fr.fn # "load_genes"
       ELSE fr.fn \notin {"load_regions", "load_variants", "load_variants_for_region"}

\* C13: run() with a name outside the source's stage set enters no stage
\* function, changes no store row and no source state, dispatches nothing and
\* raises nothing; with a name in the set it enters that stage, once, in the
\* worker that took the call.
C13_UnknownNameIsNoOp ==
    /\ [](\A w \in Workers : UnknownName(call[w]) => call[w].pc = "returned")
    /\ [](\A j \in DOMAIN outcomes : UnknownName(outcomes[j]) => ~outcomes[j].raised)
    /\ [][\A w \in Workers :
            ((UnknownName(call[w]) \/ UnknownName(call'[w])) /\ call'[w] # call[w])
            => /\ storeVars' = storeVars
               /\ Gene' = Gene
               /\ loading' = loading
               /\ chain' = chain
               /\ dispatched' = dispatched
               /\ queue' \subseteq queue]_vars
    /\ [][\A w \in Workers : \A m \in queue :
            (Start(w, m) /\ ~UnknownName(m))
            => /\ call'[w].fn = m.fn
               /\ call'[w].self = m.self
               /\ call'[w].pc \in StageEntry(m.fn)
               /\ \A v \in Workers \ {w} : call'[v] = call[v]]_vars

\* run("load_genes") on a positional source has returned, and a
\* run("load_genes") on the gene source has inserted the file's gene.
C13_Witness ==
    /\ \E j \in DOMAIN outcomes :
          outcomes[j].fn = "load_genes" /\ outcomes[j].self \in Factories
    /\ \E j \in DOMAIN outcomes :
          outcomes[j].fn = "load_genes" /\ outcomes[j].self = GeneSource
    /\ \E k \in DOMAIN Gene : Gene[k].factory = GeneSource /\ Gene[k].name = "g1"

\* ------------------------------------------------------------------ C15
\* Variant rows a and b have the same identifying key.
SameVariantKey(a, b) ==
    /\ Variant[a].region = Variant[b].region
    /\ Variant[a].pos = Variant[b].pos
    /\ Variant[a].ref = Variant[b].ref
    /\ Variant[a].alt = Variant[b].alt

\* C15: after any sequence of region loads of the positional sources there is
\* at most one Variant per (region, pos, ref, alt); a load that meets a record
\* whose Variant exists goes on with that Variant, the only row it adds is an
\* Annotation Row of its own source for it, and no existing Annotation Row, of
\* the first source or any other, is changed or removed.
C15_OneVariantPerKey ==
    /\ [](\A a, b \in DOMAIN Variant : SameVariantKey(a, b) => a = b)
    /\ [](\A w \in Workers :
            call[w].pc \in {"annotation_get", "annotation_create"}
            => LET rec == records[call[w].self][call[w].region][call[w].i]
               IN  /\ call[w].v \in DOMAIN Variant
                   /\ Variant[call[w].v].region = call[w].r
                   /\ Variant[call[w].v].pos = rec.pos
                   /\ Variant[call[w].v].ref = rec.ref
                   /\ Variant[call[w].v].alt = rec.alt)
    /\ [][/\ \A k \in DOMAIN VariantAnnotation :
                /\ k \in DOMAIN VariantAnnotation'
                /\ VariantAnnotation'[k] = VariantAnnotation[k]
          /\ \A k \in DOMAIN VariantAnnotation' \ DOMAIN VariantAnnotation :
                \E w \in Workers :
                    /\ call[w].pc = "annotation_create"
                    /\ VariantAnnotation'[k].factory = call[w].self
                    /\ VariantAnnotation'[k].variant = call[w].v
                    /\ Variant' = Variant]_vars

\* Both sources have loaded the record: one Variant, with an Annotation Row of
\* each source.
C15_Witness ==
    /\ Len(Variant) = 1
    /\ \E j \in DOMAIN outcomes : outcomes[j].self = "clinvar" /\ ~outcomes[j].raised
    /\ \E j \in DOMAIN outcomes : outcomes[j].self = "gnomad" /\ ~outcomes[j].raised
    /\ \E k \in DOMAIN VariantAnnotation :
          VariantAnnotation[k].factory = "clinvar" /\ VariantAnnotation[k].variant = 1
    /\ \E k \in DOMAIN VariantAnnotation :
          VariantAnnotation[k].factory = "gnomad" /\ VariantAnnotation[k].variant = 1

\* ------------------------------------------------------------------ C16
\* The place of a task in the positional pipeline; 0 for a region load.
Rank(fn) ==
    IF fn = "factory_set_loading_started" THEN 1
    ELSE IF fn = "load_regions" THEN 2
    ELSE IF fn = "load_variants" THEN 3
    ELSE IF fn = "factory_set_loading_success" THEN 4
    ELSE 0

\* A run of task fn of source f has completed without an error.
Completed(f, fn) ==
    \E j \in DOMAIN outcomes :
        outcomes[j].self = f /\ outcomes[j].fn = fn /\ ~outcomes[j].raised

\* C16: in a run of a positional source's load() the four tasks start in the
\* order mark-loading-started, load_regions, load_variants,
\* mark-loading-success, each after the one before has completed and while no
\* other of them runs; the source is LOADING when load_regions starts; a region
\* load starts only after load_regions has completed, and finds its Region.
C16_StagesInOrder ==
    /\ [][\A w \in Workers : \A m \in queue :
            (Start(w, m) /\ m.self \in Factories /\ Rank(m.fn) > 0)
            => /\ \A fn \in {"factory_set_loading_started", "load_regions",
                             "load_variants", "factory_set_loading_success"} :
                    /\ Rank(fn) = Rank(m.fn) - 1 => Completed(m.self, fn)
                    /\ Rank(fn) > Rank(m.fn) =>
                          \A j \in DOMAIN outcomes :
                              ~(outcomes[j].self = m.self /\ outcomes[j].fn = fn)
               /\ \A v \in Workers :
                    ~(call[v].self = m.self /\ Rank(call[v].fn) > 0)
               /\ m.fn = "load_regions" => loading[m.self] = "LOADING"]_vars
    /\ [][\A w \in Workers : \A m \in queue :
            (Start(w, m) /\ m.fn = "load_variants_for_region")
            => /\ Completed(m.self, "load_regions")
               /\ \A v \in Workers :
                    ~(call[v].self = m.self /\ call[v].fn = "load_regions")
               /\ RegionPresent(m.self, m.region)]_vars
    /\ [](\A w \in Workers :
            (call[w].fn = "load_variants_for_region" /\ call[w].pc = "raised")
            => RegionPresent(call[w].self, call[w].region))

\* The source is LOADED after a pipeline run in which a region load has run.
C16_Witness ==
    \E f \in Factories :
        /\ loading[f] = "LOADED"
        /\ Completed(f, "factory_set_loading_success")
        /\ Completed(f, "load_variants_for_region")
        /\ Len(Region) > 0

\* ------------------------------------------------------------------ C20
\* The contigs that have a Region row on the assembly of source f.
RegionsOf(f) ==
    {Region[k].seqid : k \in {x \in DOMAIN Region : Region[x].assembly = assembly[f]}}

\* C20: load_variants sends one load_variants_for_region work unit for each
\* contig load_regions ensured a Region for, none twice and none left out, and
\* no step of it writes a Variant or VariantAnnotation row.
C20_OneUnitPerRegion ==
    /\ [](\A f \in Factories :
            /\ \A a, b \in DOMAIN dispatched[f] :
                  dispatched[f][a] = dispatched[f][b] => a = b
            /\ Completed(f, "load_variants") =>
                  {dispatched[f][a] : a \in DOMAIN dispatched[f]} = RegionsOf(f))
    /\ [][\A w \in Workers :
            LoadVariantsDelay(w)
            => /\ Cardinality(queue') = Cardinality(queue) + 1
               /\ \E m \in queue' \ queue :
                    /\ m.fn = "load_variants_for_region"
                    /\ m.self = call[w].self
                    /\ m.region = contigs[call[w].self][call[w].i]]_vars
    /\ [][\A w \in Workers :
            ((call[w].fn = "load_variants" \/ call'[w].fn = "load_variants")
             /\ call'[w] # call[w])
            => storeVars' = storeVars]_vars

\* load_variants of a source whose file has two contigs has returned, its two
\* work units sent.
C20_Witness ==
    \E f \in Factories :
        /\ Completed(f, "load_variants")
        /\ Len(dispatched[f]) = 2
        /\ Cardinality(RegionsOf(f)) = 2

\* ------------------------------------------------------------------ C19
\* Every region load load_variants of source f sent has come to its end.
RegionLoadsDone(f) ==
    /\ Completed(f, "load_variants")
    /\ \A m \in queue : ~(m.self = f /\ m.fn = "load_variants_for_region")
    /\ \A w \in Workers :
          ~(call[w].self = f /\ call[w].fn = "load_variants_for_region")

\* The records of source f's file for contig c that a region load reaches: the
\* ones before the first record that fails validation.
Reached(f, c) ==
    {records[f][c][i] : i \in {x \in DOMAIN records[f][c] :
                                 \A y \in 1..x : records[f][c][y].infos # BadInfos}}

\* The Variant rows, and the VariantAnnotation rows, without their primary keys.
VariantContent ==
    {<<Region[Variant[k].region].seqid, Variant[k].pos, Variant[k].ref, Variant[k].alt>> :
        k \in DOMAIN Variant}

AnnotationContent ==
    {<<VariantAnnotation[k].factory,
       Region[Variant[VariantAnnotation[k].variant].region].seqid,
       Variant[VariantAnnotation[k].variant].pos,
       Variant[VariantAnnotation[k].variant].ref,
       Variant[VariantAnnotation[k].variant].alt,
       VariantAnnotation[k].metadata>> : k \in DOMAIN VariantAnnotation}

\* C19: once all region loads of a source have come to their end, the Variant and
\* VariantAnnotation rows are the ones the file determines, each once, whatever
\* the order and interleaving in which the workers ran the units of the regions.
C19_OrderIndependent ==
    \A f \in Factories :
        RegionLoadsDone(f) =>
            /\ VariantContent =
                  UNION {{<<c, rec.pos, rec.ref, rec.alt>> : rec \in Reached(f, c)} :
                            c \in {contigs[f][x] : x \in DOMAIN contigs[f]}}
            /\ AnnotationContent =
                  UNION {{<<f, c, rec.pos, rec.ref, rec.alt, rec.infos>> :
                              rec \in Reached(f, c)} :
                            c \in {contigs[f][x] : x \in DOMAIN contigs[f]}}
            /\ Len(Variant) = Cardinality(VariantContent)
            /\ Len(VariantAnnotation) = Cardinality(AnnotationContent)

\* Both region loads of a two-contig file have loaded their record, and the
\* unit of the contig sent second ended before the unit of the contig sent
\* first.
C19_Witness ==
    \E f \in Factories :
        /\ RegionLoadsDone(f)
        /\ Len(dispatched[f]) = 2
        /\ Cardinality(VariantContent) = 2
        /\ \E a, b \in DOMAIN outcomes :
              /\ a < b
              /\ outcomes[a].fn = "load_variants_for_region"
              /\ outcomes[a].region = dispatched[f][2]
              /\ outcomes[b].fn = "load_variants_for_region"
              /\ outcomes[b].region = dispatched[f][1]

\* ------------------------------------------------------------------ C17
\* C17: the gene source's pipeline has no fan-out: load_genes starts after
\* mark-loading-started has completed, sends no work unit, and
\* mark-loading-success starts only after load_genes has returned; whenever the
\* source is LOADED the Gene rows of every batch of the file are in the store.
C17_GenePipelineNoFanOut ==
    /\ [][\A w \in Workers : \A m \in queue :
            (Start(w, m) /\ m.self = GeneSource)
            => /\ m.fn = "load_genes" =>
                    /\ Completed(GeneSource, "factory_set_loading_started")
                    /\ loading[GeneSource] = "LOADING"
               /\ m.fn = "factory_set_loading_success" =>
                    Completed(GeneSource, "load_genes")
               /\ \A v \in Workers : call[v] = Idle]_vars
    /\ [][\A w \in Workers :
            (LoadGenesDelete(w) \/ LoadGenesBatch(w)) => queue' = queue]_vars
    /\ [](loading[GeneSource] = "LOADED" =>
            /\ Completed(GeneSource, "load_genes")
            /\ OwnGenes(GeneSource) = GenesBuilt(GeneSource, Len(tsv))
            /\ \A i \in DOMAIN tsv :
                  tsv[i].kind = "ok" =>
                      \E k \in DOMAIN Gene :
                          Gene[k].factory = GeneSource /\ Gene[k].name = tsv[i].gene)

\* The source is LOADED after a run that inserted a file of two genes in two
\* batches.
C17_Witness ==
    /\ loading[GeneSource] = "LOADED"
    /\ batch_size = 1
    /\ Len(OwnGenes(GeneSource)) = 2
    /\ Len(tsv) = 2

\* ------------------------------------------------------------------ C18
\* C18: the document get_schema() returned for a source carries the source's
\* id and, under it, the one contribution key that init_metadata and
\* merge_metadata of that source write under factories[<source id>].
C18_SchemaKeyIsWrittenKey ==
    \A f \in Sources :
        schema[f] # NoSchema =>
            /\ schema[f].id = f
            /\ \A n \in Nodes :
                  ("factories" \in DOMAIN metadata[n]
                   /\ f \in DOMAIN metadata[n].factories)
                  => DOMAIN metadata[n].factories[f] = {schema[f].key}

\* ------------------------------------------------------------------ C21
\* The stream get_genes yields: the valid records of the file, in file order.
ValidRows == SelectSeq(tsv, IsOk)

\* The store rejects the stream: a gene name is in it twice and names are unique.
NameRepeats ==
    \E a, b \in DOMAIN ValidRows : a # b /\ ValidRows[a].gene = ValidRows[b].gene

\* C21: for a stream of n valid records load_genes inserts the records in
\* stream order, each once, in groups of batch_size records but for a last
\* group of the records left: between two groups the rows inserted are the first
\* d records with d a multiple of batch_size or n; a group step adds the next
\* min(batch_size, n - d) records, and when none is left the loop ends.  A run
\* raises only where the store rejects a repeated gene name.
C21_BatchesCoverStream ==
    /\ [](\A w \in Workers :
            (call[w].fn = "load_genes" /\ call[w].pc \in {"batch", "returned"})
            => LET d == Len(OwnGenes(GeneSource))
               IN  /\ d <= Len(ValidRows)
                   /\ \A k \in 1..d :
                         OwnGenes(GeneSource)[k] = GeneOf(GeneSource, ValidRows[k])
                   /\ d % batch_size = 0 \/ d = Len(ValidRows)
                   /\ call[w].pc = "returned" => d = Len(ValidRows))
    /\ [](\A w \in Workers :
            (call[w].fn = "load_genes" /\ call[w].pc = "raised")
            => uniqueKeys /\ NameRepeats)
    /\ [][\A w \in Workers :
            (LoadGenesBatch(w) /\ call'[w].pc # "raised")
            => LET d == Len(OwnGenes(GeneSource))
                   n == Len(ValidRows)
               IN  IF d < n
                   THEN /\ Len(OwnGenes(GeneSource)') =
                              IF d + batch_size < n THEN d + batch_size ELSE n
                        /\ call'[w].pc = "batch"
                   ELSE /\ Gene' = Gene
                        /\ call'[w].pc = "returned"]_vars

\* A run over three valid records with batches of two has returned: a full
\* group and a last group of one.
C21_Witness ==
    \E w \in Workers :
        /\ call[w].fn = "load_genes"
        /\ call[w].pc = "returned"
        /\ batch_size = 2
        /\ Len(ValidRows) = 3
        /\ Len(OwnGenes(GeneSource)) = 3

\* ------------------------------------------------------------------ C22
\* The sources that have a key under "factories" in document d.
FactoryKeys(d) == IF "factories" \in DOMAIN d THEN DOMAIN d.factories ELSE {}

\* The contribution of source f for the variant of node n.
ContributionOf(f, n) ==
    IF f = GeneSource THEN GenesContribution(f, n) ELSE AnnotationContribution(f, n)

\* C22: each node's document has one key under "factories" for each source
\* that contributed on the node's ancestor chain, and no other: a
\* merge_metadata(node, parent) of source f that returns leaves the node with
\* the keys of the parent and f's, f's key holding the contribution for the
\* node's own variant also when the parent had that key, and gives no other
\* node, on whose chain nothing was contributed, a key it did not have.
C22_OneKeyPerContributor ==
    [][\A f \in Factories \cup {GeneSource} : \A n \in Nodes : \A p \in Parents(n) :
          MergeReturned(f, n, p) =>
              /\ FactoryKeys(metadata'[n]) = FactoryKeys(metadata[p]) \cup {f}
              /\ metadata'[n].factories[f] = ContributionOf(f, n)
              /\ \A m \in Nodes \ {n} :
                    FactoryKeys(metadata'[m]) = FactoryKeys(metadata[m])]_vars

\* ------------------------------------------------------------------ C23
\* No run of a task has raised or is about to end raised.
NothingRaised ==
    /\ \A j \in DOMAIN outcomes : ~outcomes[j].raised
    /\ \A w \in Workers : call[w].pc # "raised"

\* Every record of source s's file is in the store.
EverythingLoaded(s) ==
    IF s = GeneSource
    THEN \A i \in DOMAIN tsv :
            tsv[i].kind = "ok" =>
                \E k \in DOMAIN Gene :
                    Gene[k].factory = s /\ Gene[k].name = tsv[i].gene
    ELSE \A x \in DOMAIN contigs[s] : \A i \in DOMAIN records[s][contigs[s][x]] :
            RecordLoaded(s, contigs[s][x], records[s][contigs[s][x]][i])

====
